---- MODULE Spec2Model ----
(***************************************************************************)
(* Single-sequence decode attention kernels of flashinfer                  *)
(* (include/flashinfer/decode.cuh): the HND and the NHD kernel, their      *)
(* helpers compute_qk / update_partial_state / sync_state, and the host    *)
(* launcher SingleDecodeWithKVCache.                                       *)
(*                                                                         *)
(* Numbers.  A score is the integer dot product q.k; sm_scale is a fixed   *)
(* positive factor and is absorbed in the base of the exponential, so      *)
(* exp(a - b) is modelled by 2^(a - b).  d and o are exact fixed point     *)
(* numbers with MaxScore fractional bits (One stands for 1.0f): every      *)
(* rescale by 2^(m - m') is then an exact integer division.  Rounding of   *)
(* float arithmetic is not modelled.                                       *)
(*                                                                         *)
(* Geometry.  The block shape is scaled down: bdx = 2^LogBdx lanes hold    *)
(* one vector of head_dim = bdx * vec_size features; bdy and bdz are the   *)
(* template parameters of the same name.                                   *)
(***************************************************************************)
EXTENDS Integers, Sequences, FiniteSets, TLC

\* ---------------------------------------------------------------- bounds
LogBdx == 1
VecSize == 1
Bdy == 2
Bdz == 2
MaxSeqLen == 5
MaxHeads == 4
MaxBlks == 4
MaxSeed == 1
MaxFold == 2
MaxX == 2
MaxRope == 1

RECURSIVE Pow2(_)
Pow2(n) == IF n <= 0 THEN 1 ELSE 2 * Pow2(n - 1)

Bdx == Pow2(LogBdx)
HeadDim == Bdx * VecSize
Feat == 0 .. (HeadDim - 1)

Max(a, b) == IF a >= b THEN a ELSE b
Min(a, b) == IF a <= b THEN a ELSE b

\* ------------------------------------------------------- program constants
stages_count == 4

VARIABLES
  layout,      \* qkv_layout of the launch: "HND" or "NHD"
  seq_len,     \* seq_len argument
  chunk_arg,   \* kv_chunk_size argument as passed by the launcher
  heads,       \* the caller's num_heads
  seed,        \* selects the contents of q, k, v
  tmp,         \* the scratch buffer, index -> float
  o_out,       \* the output tensor, index -> float or Unwritten
  pc,          \* grid: group <<bx, by>> -> position in the kernel
  regs,        \* grid: group -> ty -> the state its lanes hold
  wlog,        \* history: <<index, head, chunk, field>> stored before grid.sync
  rlog,        \* history: <<index, head, chunk, field>> loaded in the cross-group merge
  fwlog,       \* history: <<index, head>> of the final (m, d) stores
  blk,         \* one group streaming its chunk (tile loop), a record
  sA, sB, sC,  \* three running states (merge algebra)
  host,        \* the launcher SingleDecodeWithKVCache, a record
  pipe,        \* one group lane by lane: pipeline, barriers, staging slots
  red          \* one bdx-lane tile in the reduction of compute_qk

vars == <<layout, seq_len, chunk_arg, heads, seed, tmp, o_out, pc, regs, wlog, rlog, fwlog,
          blk, sA, sB, sC, host, pipe, red>>

Idle == "idle"

\* ------------------------------------------------------------ q, k, v data
\* Logical contents, entries in 0..1 (q, k) and 0..2 (v), fixed by the seed.
QAt(sd, h, f) == IF sd = 0 THEN 1 ELSE (h + f + 1) % 2
KAt(sd, p, h, f) == (p + h + f + (p * h) + (sd * p * f)) % 2
VAt(sd, p, h, f) == (p + 2 * h + f + sd) % 3

\* Largest score: all head_dim products equal to 1.
MaxScore == HeadDim
One == Pow2(MaxScore)

\* The caller's cache: element address -> logical (position, head, feature),
\* [seq_len, num_heads, head_dim] for NHD and [num_heads, seq_len, head_dim]
\* for HND, with the caller's num_heads.
CachePos(l, sl, nh, addr) ==
  IF l = "NHD" THEN (addr \div HeadDim) \div nh ELSE (addr \div HeadDim) % sl
CacheHead(l, sl, nh, addr) ==
  IF l = "NHD" THEN (addr \div HeadDim) % nh ELSE (addr \div HeadDim) \div sl
KMem(l, sl, nh, sd, addr) ==
  KAt(sd, CachePos(l, sl, nh, addr), CacheHead(l, sl, nh, addr), addr % HeadDim)
VMem(l, sl, nh, sd, addr) ==
  VAt(sd, CachePos(l, sl, nh, addr), CacheHead(l, sl, nh, addr), addr % HeadDim)

\* ------------------------------------------------------- state_t (state.cuh)
NegInf == -1
ZeroVec == [f \in Feat |-> 0]
StateInit == [m |-> NegInf, d |-> 0, o |-> ZeroVec]

\* v * exp(from - to) for to >= from; exp(-inf - to) = 0.
Rescale(v, from, to) == IF from = NegInf THEN 0 ELSE v \div Pow2(to - from)

\* merge with the rescaling of the other state left out.
MergeNoRescale(s, om, od, oo) ==
  LET mp == Max(s.m, om) IN
    [m |-> mp, d |-> Rescale(s.d, s.m, mp) + od,
     o |-> [f \in Feat |-> Rescale(s.o[f], s.m, mp) + oo[f]]]

\* state_t::merge(other_m, other_d, other_o): the two-state merge rule.
merge(s, om, od, oo) ==
  LET mp == Max(s.m, om) IN
    [m |-> mp, d |-> Rescale(s.d, s.m, mp) + Rescale(od, om, mp),
     o |-> [f \in Feat |-> Rescale(s.o[f], s.m, mp) + Rescale(oo[f], om, mp)]]

\* state_t::merge(other): merge of two states.
merge_state(s, t) == merge(s, t.m, t.d, t.o)

\* state_t::merge(x, v): the fold of one element, a state with m = x, d = 1, o = v.
merge_elem(s, x, v) == merge(s, x, One, [f \in Feat |-> v[f] * One])

\* ------------------------------------------------- launch context of a group
\* c = [l, sl, ca, nh, sd, bx, by, gx, gy]: layout, seq_len, kv_chunk_size
\* argument, the caller's num_heads, data seed, blockIdx.x/y, gridDim.x/y.
SizeTMod == Pow2(16)
\* a - b in size_t arithmetic (scaled width).
USub(a, b) == (a - b + SizeTMod) % SizeTMod

\* num_heads as the kernel derives it.
num_heads(c) == IF c.l = "HND" THEN c.gy ELSE c.gy * Bdy
num_kv_chunks(c) == c.gx
head_idx(c, ty) == IF c.l = "HND" THEN c.by ELSE c.by * Bdy + ty
\* Rows of a tile: bdy in HND, bdz in NHD.
TileH(l) == IF l = "HND" THEN Bdy ELSE Bdz
\* Heads of one group: 1 in HND, bdy in NHD.
HeadsPerGroup(l) == IF l = "HND" THEN 1 ELSE Bdy
\* The lane subgroups <<ty, tz>> of a group (each is bdx lanes, one vector).
Subs(l) == IF l = "HND" THEN (0 .. (Bdy - 1)) \X {0} ELSE (0 .. (Bdy - 1)) \X (0 .. (Bdz - 1))
\* The tile row a subgroup works on: ty in HND, tz in NHD.
PosRow(l, sub) == IF l = "HND" THEN sub[1] ELSE sub[2]
\* The ty values that name a head of the group.
HeadTys(l) == IF l = "HND" THEN {0} ELSE 0 .. (Bdy - 1)
\* The head a subgroup works on.
SubHead(c, sub) == IF c.l = "HND" THEN c.by ELSE c.by * Bdy + sub[1]
\* Row of a subgroup inside a staging slot: ty, or tz * bdy + ty.
SmemRow(l, sub) == IF l = "HND" THEN sub[1] ELSE sub[2] * Bdy + sub[1]
NumRows(l) == IF l = "HND" THEN Bdy ELSE Bdz * Bdy

chunk_start(c) == c.bx * c.ca
\* The chunk length without the clamp to the end of the sequence.
KvChunkSizeUnclamped(c) == c.ca
kv_chunk_size(c) == Min(c.ca, USub(c.sl, chunk_start(c)))
chunk_end(c) == chunk_start(c) + kv_chunk_size(c)
\* Trip bound of the tile loop: (kv_chunk_size + bdy - 1) / bdy.
NumBatches(c) == (kv_chunk_size(c) + TileH(c.l) - 1) \div TileH(c.l)

\* Element address of the vector of (pos, head of sub) in the k / v cache.
FetchAddr(c, sub, pos) ==
  IF c.l = "HND" THEN (SubHead(c, sub) * c.sl + pos) * HeadDim
  ELSE (pos * num_heads(c) + SubHead(c, sub)) * HeadDim

\* ----------------------------------------------------------- staging slots
\* A slot row holds nothing yet (uninitialised shared memory) or the vector
\* copied from element address addr of the k or the v cache; pos is the
\* position the copy was issued for.
EmptyCell == [src |-> "none", addr |-> 0, pos |-> 0]
EmptySlot(l) == [r \in 0 .. (NumRows(l) - 1) |-> EmptyCell]

CellVal(c, cell, f) ==
  IF cell.src = "k" THEN KMem(c.l, c.sl, c.nh, c.sd, cell.addr + f)
  ELSE IF cell.src = "v" THEN VMem(c.l, c.sl, c.nh, c.sd, cell.addr + f)
  ELSE 0

\* cuda::memcpy_async of one tile under the producer guard: the rows of the
\* subgroups whose guard holds are overwritten, the others keep their content.
IssueCopy(c, slot, kind, row0, guard) ==
  [r \in 0 .. (NumRows(c.l) - 1) |->
     LET sub == CHOOSE s \in Subs(c.l) : SmemRow(c.l, s) = r IN
       IF guard[sub]
       THEN [src |-> kind, addr |-> FetchAddr(c, sub, row0 + PosRow(c.l, sub)),
             pos |-> row0 + PosRow(c.l, sub)]
       ELSE slot[r]]

\* -------------------------------------------------------------- compute_qk
\* A shuffle that moves nothing.
ShflKeep(xs, off) == xs
\* One shfl_down step of the bdx-lane tile: lane t adds the value of lane
\* t + off (its own value when t + off is outside the tile).
ShflDown(xs, off) ==
  [t \in DOMAIN xs |-> xs[t] + (IF (t + off) \in DOMAIN xs THEN xs[t + off] ELSE xs[t])]

RECURSIVE TreeReduce(_, _)
TreeReduce(xs, off) == IF off <= 0 THEN xs ELSE TreeReduce(ShflDown(xs, off), off \div 2)

RECURSIVE SumUpTo(_, _)
SumUpTo(g, n) == IF n <= 0 THEN 0 ELSE g[n - 1] + SumUpTo(g, n - 1)

consumer_kv_idx(c, b, sub) == chunk_start(c) + (b.batch - 1) * TileH(c.l) + PosRow(c.l, sub)

\* rotary_emb[f]: the frequency of feature f, from the rope parameter c.rs
\* (rope_inv_scale, rope_inv_theta) and f % (head_dim / 2).
rotary_emb(c, f) == c.rs * ((f % (HeadDim \div 2)) + 1)
\* apply_rotary (rope.cuh): the position-dependent transform of a vector, on
\* the feature pairs (f, f + head_dim / 2); here the pair is exchanged when
\* frequency * position is odd, so that entries stay non-negative.
apply_rotary(c, vec, pos) ==
  [f \in Feat |-> IF (rotary_emb(c, f) * pos) % 2 = 1
                  THEN vec[(f + HeadDim \div 2) % HeadDim] ELSE vec[f]]
\* q_vec of head h: rotated at position seq_len - 1, or loaded as it is.
QVec(c, h) ==
  IF c.rm = "kApplyRotary"
    THEN apply_rotary(c, [f \in Feat |-> QAt(c.sd, h, f)], c.sl - 1)
    ELSE [f \in Feat |-> QAt(c.sd, h, f)]
\* k_vec of a staged row: rotated at position kv_idx, or loaded as it is.
KVec(c, cell, kv_idx) ==
  IF c.rm = "kApplyRotary"
    THEN apply_rotary(c, [f \in Feat |-> CellVal(c, cell, f)], kv_idx)
    ELSE [f \in Feat |-> CellVal(c, cell, f)]

\* The partial product of lane tx over its vec_size features.
LaneDot(q, k, tx) ==
  SumUpTo([i \in 0 .. (VecSize - 1) |-> q[tx * VecSize + i] * k[tx * VecSize + i]], VecSize)

XGarbage == NegInf - 1
\* compute_qk with the rotary branch taken whatever the rotary mode.
ComputeQKAlwaysRotary(c, b, sub) ==
  LET cell == b.smem[b.compute_stage_idx][SmemRow(c.l, sub)]
      q == QVec(c, SubHead(c, sub))
      k == apply_rotary(c, [f \in Feat |-> CellVal(c, cell, f)], consumer_kv_idx(c, b, sub))
      part == [tx \in 0 .. (Bdx - 1) |-> LaneDot(q, k, tx)]
  IN [val |-> IF cell.src = "none" THEN XGarbage ELSE TreeReduce(part, Bdx \div 2)[0],
      src |-> cell.src, pos |-> cell.pos]
\* compute_qk: the score every lane of the subgroup holds after the tree
\* reduction and the broadcast of lane 0.
compute_qk(c, b, sub) ==
  LET cell == b.smem[b.compute_stage_idx][SmemRow(c.l, sub)]
      q == QVec(c, SubHead(c, sub))
      k == KVec(c, cell, consumer_kv_idx(c, b, sub))
      part == [tx \in 0 .. (Bdx - 1) |-> LaneDot(q, k, tx)]
  IN [val |-> IF cell.src = "none" THEN XGarbage ELSE TreeReduce(part, Bdx \div 2)[0],
      src |-> cell.src, pos |-> cell.pos]

\* ---------------------------------------------------- update_partial_state
\* update_partial_state without the guard: every lane folds.
UpdateUnguarded(c, b, sub, pred_guard) ==
  LET cell == b.smem[b.compute_stage_idx][SmemRow(c.l, sub)] IN
    merge_elem(b.s[sub], b.x[sub].val, [f \in Feat |-> CellVal(c, cell, f)])

\* update_partial_state: the value row is loaded, and folded if pred_guard.
update_partial_state(c, b, sub, pred_guard) ==
  LET cell == b.smem[b.compute_stage_idx][SmemRow(c.l, sub)] IN
    IF pred_guard
    THEN merge_elem(b.s[sub], b.x[sub].val, [f \in Feat |-> CellVal(c, cell, f)])
    ELSE b.s[sub]

\* -------------------------------------------------------------- sync_state
RECURSIVE MergeRows(_, _, _, _, _)
\* The loop of sync_state: j = from .. n-1, each row's state merged in turn.
MergeRows(l, st, sub, j, acc) ==
  IF j >= TileH(l) THEN acc
  ELSE LET other == IF l = "HND" THEN st[<<j, 0>>] ELSE st[<<sub[1], j>>] IN
         MergeRows(l, st, sub, j + 1, merge_state(acc, other))

\* sync_state with the loop started at j = 1.
SyncStateSkipFirst(l, st) == [sub \in Subs(l) |-> MergeRows(l, st, sub, 1, StateInit)]
\* sync_state: every subgroup stores its state to shared memory, block.sync,
\* s.init(), then merges the rows j = 0 .. bdy-1 (HND) or the rows
\* j = 0 .. bdz-1 of its own ty (NHD).
sync_state(l, st) == [sub \in Subs(l) |-> MergeRows(l, st, sub, 0, StateInit)]

\* ------------------------------------------- one group streaming its chunk
\* b = [phase, batch, copy_stage_idx, compute_stage_idx, smem, pp, x, s, flog]:
\* smem the four staging slots, pp the producer_pred_guard, x the score and s
\* the running state of every subgroup; flog (history) lists per subgroup what
\* it folded: the consumer position, and where score and value came from.
XInit == [val |-> 0, src |-> "none", pos |-> 0]
BlkInit(c) ==
  [phase |-> "prologue", batch |-> 1, copy_stage_idx |-> 2, compute_stage_idx |-> 0,
   smem |-> [i \in 0 .. (stages_count - 1) |-> EmptySlot(c.l)],
   pp |-> [sub \in Subs(c.l) |-> FALSE],
   x |-> [sub \in Subs(c.l) |-> XInit],
   s |-> [sub \in Subs(c.l) |-> StateInit],
   flog |-> [sub \in Subs(c.l) |-> <<>>]]

\* The loop test batch < (kv_chunk_size + bdy - 1) / bdy.
LoopTest(c, batch) == IF batch < NumBatches(c) THEN "load_k" ELSE "epi_qk"

\* First k and v tile, guard ty < kv_chunk_size (tz in NHD).
Prologue(c, b) ==
  LET g == [sub \in Subs(c.l) |-> PosRow(c.l, sub) < kv_chunk_size(c)] IN
    [b EXCEPT !.pp = g,
              !.smem = [b.smem EXCEPT
                          ![0] = IssueCopy(c, b.smem[0], "k", chunk_start(c), g),
                          ![1] = IssueCopy(c, b.smem[1], "v", chunk_start(c), g)],
              !.copy_stage_idx = 2, !.compute_stage_idx = 0, !.batch = 1,
              !.phase = LoopTest(c, 1)]

\* Load stage of the loop, k tile.
LoadK(c, b) ==
  LET row0 == chunk_start(c) + b.batch * TileH(c.l)
      g == [sub \in Subs(c.l) |-> row0 + PosRow(c.l, sub) < chunk_end(c)]
  IN [b EXCEPT !.pp = g,
               !.smem[b.copy_stage_idx] = IssueCopy(c, b.smem[b.copy_stage_idx], "k", row0, g),
               !.copy_stage_idx = (b.copy_stage_idx + 1) % stages_count,
               !.phase = "qk"]

\* Compute stage: compute_qk on the slot compute_stage_idx.
ComputeQK(c, b, next) ==
  [b EXCEPT !.x = [sub \in Subs(c.l) |-> compute_qk(c, b, sub)],
            !.compute_stage_idx = (b.compute_stage_idx + 1) % stages_count,
            !.phase = next]

\* Load stage of the loop, v tile, under the guard of the k tile.
LoadV(c, b) ==
  LET row0 == chunk_start(c) + b.batch * TileH(c.l) IN
    [b EXCEPT !.smem[b.copy_stage_idx] =
                 IssueCopy(c, b.smem[b.copy_stage_idx], "v", row0, b.pp),
              !.copy_stage_idx = (b.copy_stage_idx + 1) % stages_count,
              !.phase = "update"]

\* consumer_pred_guard of the last two compute stages.
EpiGuard(c, b, sub) == consumer_kv_idx(c, b, sub) < chunk_end(c)

FoldEntry(c, b, sub) ==
  LET cell == b.smem[b.compute_stage_idx][SmemRow(c.l, sub)] IN
    [idx |-> consumer_kv_idx(c, b, sub), ksrc |-> b.x[sub].src, kpos |-> b.x[sub].pos,
     vsrc |-> cell.src, vpos |-> cell.pos]

\* Compute stage: update_partial_state on the slot compute_stage_idx.
UpdateStage(c, b, guard, batch, next) ==
  [b EXCEPT !.s = [sub \in Subs(c.l) |-> update_partial_state(c, b, sub, guard[sub])],
            !.flog = [sub \in Subs(c.l) |->
                        IF b.s[sub] # update_partial_state(c, b, sub, guard[sub])
                           \/ guard[sub]
                        THEN Append(b.flog[sub], FoldEntry(c, b, sub))
                        ELSE b.flog[sub]],
            !.compute_stage_idx = (b.compute_stage_idx + 1) % stages_count,
            !.batch = batch,
            !.phase = next]

\* update_partial_state inside the loop: consumer_pred_guard = true.
LoopUpdate(c, b) ==
  UpdateStage(c, b, [sub \in Subs(c.l) |-> TRUE], b.batch + 1, LoopTest(c, b.batch + 1))

\* update_partial_state of the last tile.
EpiUpdate(c, b) ==
  UpdateStage(c, b, [sub \in Subs(c.l) |-> EpiGuard(c, b, sub)], b.batch, "sync_state")

\* sync_state on s_partial.
SyncPartial(c, b) == [b EXCEPT !.s = sync_state(c.l, b.s), !.phase = "synced"]

BlkStep(c, b) ==
  CASE b.phase = "prologue" -> Prologue(c, b)
    [] b.phase = "load_k" -> LoadK(c, b)
    [] b.phase = "qk" -> ComputeQK(c, b, "load_v")
    [] b.phase = "load_v" -> LoadV(c, b)
    [] b.phase = "update" -> LoopUpdate(c, b)
    [] b.phase = "epi_qk" -> ComputeQK(c, b, "epi_update")
    [] b.phase = "epi_update" -> EpiUpdate(c, b)
    [] b.phase = "sync_state" -> SyncPartial(c, b)
    [] OTHER -> b

RECURSIVE RunBlk(_, _)
\* The group's code from the kernel entry to the end of sync_state.
RunBlk(c, b) == IF b.phase = "synced" THEN b ELSE RunBlk(c, BlkStep(c, b))

\* ----------------------------------------------------------------- launches
\* The grids SingleDecodeWithKVCache launches: gridDim.x = ceil(seq_len /
\* kv_chunk_size), gridDim.y = num_heads (HND) or num_heads / bdy (NHD), both
\* positive, and at most MaxBlks groups (all resident at once).
GridX(sl, ca) == (sl + ca - 1) \div ca
GridY(l, nh) == IF l = "HND" THEN nh ELSE nh \div Bdy
Launches ==
  {x \in [l : {"HND", "NHD"}, sl : 1 .. MaxSeqLen, ca : 1 .. (MaxSeqLen + 1),
          nh : 1 .. MaxHeads, sd : 0 .. MaxSeed] :
     /\ GridY(x.l, x.nh) > 0
     /\ GridX(x.sl, x.ca) * GridY(x.l, x.nh) <= MaxBlks}
\* The context of group (bx, by) of launch x, of the kernel instantiated for
\* rotary mode kNone.
Ctx(x, bx, by) ==
  [l |-> x.l, sl |-> x.sl, ca |-> x.ca, nh |-> x.nh, sd |-> x.sd,
   bx |-> bx, by |-> by, gx |-> GridX(x.sl, x.ca), gy |-> GridY(x.l, x.nh),
   rm |-> "kNone", rs |-> 0]
\* The groups of every launch, for both rotary modes and every rope parameter.
GroupCtxs ==
  UNION {{[Ctx(x, bx, by) EXCEPT !.rm = rm, !.rs = rs] :
            bx \in 0 .. (GridX(x.sl, x.ca) - 1), by \in 0 .. (GridY(x.l, x.nh) - 1),
            rm \in {"kNone", "kApplyRotary"}, rs \in 0 .. MaxRope} : x \in Launches}

\* ------------------------------------------------------------ scratch buffer
\* Index of the (head, chunk) pair: head * chunks + chunk in HND,
\* chunk * heads + head in NHD.  The store before grid.sync.
WritePair(c, h, ch) ==
  IF c.l = "HND" THEN h * num_kv_chunks(c) + ch ELSE ch * num_heads(c) + h
\* The same index as the cross-group merge computes it for its loads.
ReadPair(c, h, ch) ==
  IF c.l = "HND" THEN h * num_kv_chunks(c) + ch ELSE ch * num_heads(c) + h
\* tmp_md = tmp + num_heads * num_kv_chunks * head_dim.
\* The (m, d) offset with the chunk factor left out.
TmpMdOneChunk(c) == num_heads(c) * HeadDim
tmp_md(c) == num_heads(c) * num_kv_chunks(c) * HeadDim
\* The elements of tmp the lanes tx = 0 .. bdx-1 of one subgroup touch for a vector.
VecIdx(pair) == {pair * HeadDim + tx * VecSize + i : tx \in 0 .. (Bdx - 1), i \in 0 .. (VecSize - 1)}

\* The scratch buffer the caller allocates, in floats.
TmpSize(l, sl, ca, nh) == nh * GridX(sl, ca) * HeadDim + 2 * nh * GridX(sl, ca)

\* tmp after the stores upd (index -> value); a store outside the buffer is
\* not kept.
Store(mem, upd) == [i \in DOMAIN mem |-> IF i \in DOMAIN upd THEN upd[i] ELSE mem[i]]

\* The stores of one state as the partial state of pair p.
PartialStores(c, p, st) ==
  [i \in VecIdx(p) \cup {tmp_md(c) + p * 2, tmp_md(c) + p * 2 + 1} |->
     IF i = tmp_md(c) + p * 2 THEN st.m
     ELSE IF i = tmp_md(c) + p * 2 + 1 THEN st.d
     ELSE st.o[i - p * HeadDim]]

\* The elements of tmp a store or load of the partial state of pair p touches,
\* each with the field it holds.
PartialIdx(c, p) ==
  {<<i, "o">> : i \in VecIdx(p)} \cup {<<tmp_md(c) + p * 2, "m">>, <<tmp_md(c) + p * 2 + 1, "d">>}

\* The state loaded from tmp as the partial state of pair p.
LoadPartial(c, mem, p) ==
  [m |-> mem[tmp_md(c) + p * 2], d |-> mem[tmp_md(c) + p * 2 + 1],
   o |-> [f \in Feat |-> mem[p * HeadDim + f]]]

RECURSIVE Overlay(_, _, _)
\* The union of the stores fs[k], k in ks.
Overlay(fs, ks, acc) ==
  IF ks = {} THEN acc
  ELSE LET k == CHOOSE kk \in ks : TRUE
           f == fs[k]
       IN Overlay(fs, ks \ {k},
                  [i \in DOMAIN acc \cup DOMAIN f |-> IF i \in DOMAIN f THEN f[i] ELSE acc[i]])

\* ------------------------------------------------------- the grid of groups
Launch == [l |-> layout, sl |-> seq_len, ca |-> chunk_arg, nh |-> heads, sd |-> seed]
Groups == (0 .. (GridX(seq_len, chunk_arg) - 1)) \X (0 .. (GridY(layout, heads) - 1))
GCtx(g) == Ctx(Launch, g[1], g[2])

GarbageVals == {0, One + 3}
Unwritten == NegInf - 2

InitGrid ==
  \E x \in Launches, gb \in GarbageVals :
    /\ layout = x.l /\ seq_len = x.sl /\ chunk_arg = x.ca /\ heads = x.nh /\ seed = x.sd
    /\ tmp = [i \in 0 .. (TmpSize(x.l, x.sl, x.ca, x.nh) - 1) |-> gb]
    /\ o_out = [i \in 0 .. (x.nh * HeadDim - 1) |-> Unwritten]
    /\ pc = [g \in (0 .. (GridX(x.sl, x.ca) - 1)) \X (0 .. (GridY(x.l, x.nh) - 1)) |-> "start"]
    /\ regs = [g \in (0 .. (GridX(x.sl, x.ca) - 1)) \X (0 .. (GridY(x.l, x.nh) - 1)) |->
                 [ty \in HeadTys(x.l) |-> StateInit]]
    /\ wlog = {}
    /\ rlog = {}
    /\ fwlog = {}

Init ==
  /\ InitGrid
  /\ blk = Idle /\ sA = Idle /\ sB = Idle /\ sC = Idle /\ host = Idle
  /\ pipe = Idle /\ red = Idle

\* The subgroup of head ty in tile row r.
SubOf(l, ty, r) == IF l = "HND" THEN <<r, 0>> ELSE <<ty, r>>

\* From the kernel entry to grid.sync(): the tile loop, sync_state, and the
\* stores of s_partial to tmp.  The lanes of every tile row store their copy
\* of the state of head ty to the same elements; st[ty] is the copy whose
\* store lands last.
RunChunk(g) ==
  /\ pc[g] = "start"
  /\ \E b \in {RunBlk(GCtx(g), BlkInit(GCtx(g)))} :
     \E held \in {[ty \in HeadTys(layout) |->
                     {b.s[SubOf(layout, ty, r)] : r \in 0 .. (TileH(layout) - 1)}]} :
     LET c == GCtx(g)
     IN \E st \in {f \in [HeadTys(layout) -> UNION {held[ty] : ty \in HeadTys(layout)}] :
                     \A ty \in HeadTys(layout) : f[ty] \in held[ty]} :
       LET ups == [ty \in HeadTys(layout) |->
                     PartialStores(c, WritePair(c, head_idx(c, ty), g[1]), st[ty])]
           upd == Overlay(ups, HeadTys(layout), <<>>)
       IN /\ tmp' = Store(tmp, upd)
          /\ regs' = [regs EXCEPT ![g] = st]
          /\ wlog' = wlog \cup
               UNION {{<<e[1], head_idx(c, ty), g[1], e[2]>> :
                         e \in PartialIdx(c, WritePair(c, head_idx(c, ty), g[1]))} :
                      ty \in HeadTys(layout)}
  /\ pc' = [pc EXCEPT ![g] = "barrier"]
  /\ UNCHANGED <<layout, seq_len, chunk_arg, heads, seed, o_out, rlog, fwlog,
                 blk, sA, sB, sC, host, pipe, red>>

\* A barrier that lets every group through at once.
GridSyncAbsent == TRUE
\* grid.sync(): a group passes when every group of the launch has arrived.
GridSync == \A g \in Groups : pc[g] # "start"

\* A group with kv_chunk_idx # 0 returns after grid.sync().
Exit(g) ==
  /\ pc[g] = "barrier" /\ g[1] # 0
  /\ GridSync
  /\ pc' = [pc EXCEPT ![g] = "done"]
  /\ UNCHANGED <<layout, seq_len, chunk_arg, heads, seed, tmp, o_out, regs, wlog, rlog, fwlog,
                 blk, sA, sB, sC, host, pipe, red>>

\* The chunks the subgroup in tile row r loads: batch * bdy + ty < num_kv_chunks.
ChunksOfRow(c, r) ==
  {ch \in 0 .. (num_kv_chunks(c) - 1) : ch % TileH(c.l) = r}

RECURSIVE MergeChunks(_, _, _, _, _, _)
\* The loop over batch of the cross-group merge, for head h and tile row r.
MergeChunks(c, mem, h, r, batch, acc) ==
  IF batch >= (num_kv_chunks(c) + TileH(c.l) - 1) \div TileH(c.l) THEN acc
  ELSE LET ch == batch * TileH(c.l) + r IN
         MergeChunks(c, mem, h, r, batch + 1,
                     IF ch < num_kv_chunks(c)
                     THEN merge_state(acc, LoadPartial(c, mem, ReadPair(c, h, ch)))
                     ELSE acc)


\* The chunk-zero group after grid.sync(): every subgroup merges the partial
\* states of its chunks into s_global, block.sync, sync_state.
CrossGroupMerge(g) ==
  /\ pc[g] = "barrier" /\ g[1] = 0
  /\ GridSync
  /\ \E cv \in {sync_state(layout,
                    [sub \in Subs(layout) |->
                       MergeChunks(GCtx(g), tmp, SubHead(GCtx(g), sub),
                                   PosRow(layout, sub), 0, StateInit)])} :
     LET c == GCtx(g)
     IN /\ regs' = [regs EXCEPT ![g] = [ty \in HeadTys(layout) |-> cv[SubOf(layout, ty, 0)]]]
        /\ rlog' = rlog \cup
             UNION {{<<e[1], SubHead(c, sub), ch, e[2]>> :
                       e \in PartialIdx(c, ReadPair(c, SubHead(c, sub), ch))} :
                    ch \in 0 .. (num_kv_chunks(c) - 1), sub \in Subs(layout)}
  /\ pc' = [pc EXCEPT ![g] = "merged"]
  /\ UNCHANGED <<layout, seq_len, chunk_arg, heads, seed, tmp, o_out, wlog, fwlog,
                 blk, sA, sB, sC, host, pipe, red>>

\* The stores of the final (m, d) of head h: tmp[head_idx], tmp[num_heads + head_idx].
FinalStores(c, h, st) ==
  [i \in {h, num_heads(c) + h} |-> IF i = h THEN st.m ELSE st.d]

\* The chunk-zero group writes s_global.o to the output tensor and the final
\* (m, d) to tmp.
FinalWrite(g) ==
  /\ pc[g] = "merged"
  /\ LET c == GCtx(g)
         fin == [ty \in HeadTys(layout) |-> FinalStores(c, head_idx(c, ty), regs[g][ty])]
     IN /\ tmp' = Store(tmp, Overlay(fin, HeadTys(layout), <<>>))
        /\ fwlog' = fwlog \cup UNION {{<<i, head_idx(c, ty)>> : i \in DOMAIN fin[ty]} :
                                       ty \in HeadTys(layout)}
        /\ o_out' = [i \in DOMAIN o_out |->
                       IF \E ty \in HeadTys(layout) : i \div HeadDim = head_idx(c, ty)
                       THEN regs[g][CHOOSE ty \in HeadTys(layout) :
                                      i \div HeadDim = head_idx(c, ty)].o[i % HeadDim]
                       ELSE o_out[i]]
  /\ pc' = [pc EXCEPT ![g] = "done"]
  /\ UNCHANGED <<layout, seq_len, chunk_arg, heads, seed, regs, wlog, rlog,
                 blk, sA, sB, sC, host, pipe, red>>

Next ==
  \E g \in Groups : RunChunk(g) \/ Exit(g) \/ CrossGroupMerge(g) \/ FinalWrite(g)

Spec == Init /\ [][Next]_vars

\* ------------------------------------------------------ single-pass reference
\* The score of position p for head h on the logical cache.
Score(x, h, p) == SumUpTo([f \in Feat |-> QAt(x.sd, h, f) * KAt(x.sd, p, h, f)], HeadDim)

RECURSIVE FoldAll(_, _, _, _)
\* Positions p .. seq_len-1 of head h folded into one running state, in order.
FoldAll(x, h, p, acc) ==
  IF p >= x.sl THEN acc
  ELSE FoldAll(x, h, p + 1,
               merge_elem(acc, Score(x, h, p), [f \in Feat |-> VAt(x.sd, p, h, f)]))
SinglePass(x, h) == FoldAll(x, h, 0, StateInit)

\* The chunk-zero groups that hold a final state.
Finished == {g \in Groups : g[1] = 0 /\ pc[g] \in {"merged", "done"}}

AllDone == \A g \in Groups : pc[g] = "done"

\* The kernel's result computed without any interleaving: every group's
\* partial state stored, then the cross-group merge and sync_state per head.
PartialTmp(x) ==
  LET gs == (0 .. (GridX(x.sl, x.ca) - 1)) \X (0 .. (GridY(x.l, x.nh) - 1))
      ups == [k \in gs \X HeadTys(x.l) |->
                LET c == Ctx(x, k[1][1], k[1][2])
                    b == RunBlk(c, BlkInit(c))
                IN PartialStores(c, WritePair(c, head_idx(c, k[2]), k[1][1]),
                                 b.s[SubOf(x.l, k[2], 0)])]
  IN Overlay(ups, gs \X HeadTys(x.l), <<>>)
SequentialState(x, by, ty) ==
  LET c == Ctx(x, 0, by)
      mem == PartialTmp(x)
      sg == [sub \in Subs(x.l) |->
               MergeChunks(c, mem, SubHead(c, sub), PosRow(x.l, sub), 0, StateInit)]
  IN sync_state(x.l, sg)[SubOf(x.l, ty, 0)]

\* --------------------------------------------------- properties of a launch
\* C1: for every seq_len and chunk size, in both kernels, the final state of
\* every head (per-chunk folding, sync_state, cross-group merge) equals the
\* state of one pass over positions 0 .. seq_len-1.
C1_FinalStateIsSinglePass ==
  \A g \in Finished : \A ty \in HeadTys(layout) :
    regs[g][ty] = SinglePass(Launch, head_idx(GCtx(g), ty))

\* C3: the output written for a head is its accumulated o divided by d.
C3_OutputIsODividedByD ==
  \A g \in Groups : (g[1] = 0 /\ pc[g] = "done") =>
    \A ty \in HeadTys(layout) : \A f \in Feat :
      o_out[head_idx(GCtx(g), ty) * HeadDim + f] * regs[g][ty].d = regs[g][ty].o[f] * One

\* C6: every element of tmp loaded in the cross-group merge as part of a
\* (head, chunk) pair was stored before grid.sync as that part of that pair,
\* and no group loads before every group has arrived at grid.sync.
C6_ReadsWereWrittenBeforeBarrier ==
  /\ rlog \subseteq wlog
  /\ (\E g \in Groups : pc[g] \in {"merged", "done"}) => \A g \in Groups : pc[g] # "start"
C6_Witness ==
  /\ num_kv_chunks(GCtx(<<0, 0>>)) >= 2
  /\ GridY(layout, heads) >= 2
  /\ \A g \in Groups : g[1] = 0 => pc[g] = "merged"
  /\ rlog # {} /\ rlog = wlog

\* C7: before grid.sync no element of tmp is stored for two (head, chunk)
\* pairs or as two fields, and every stored index is inside the buffer of
\* heads * chunks * head_dim + 2 * heads * chunks floats.
C7_PartialStoresDisjointInBounds ==
  /\ \A a \in wlog : \A b \in wlog : a[1] = b[1] => a = b
  /\ \A a \in wlog :
       /\ 0 <= a[1]
       /\ a[1] < num_heads(GCtx(<<0, 0>>)) * num_kv_chunks(GCtx(<<0, 0>>)) * (HeadDim + 2)
C7_Witness ==
  /\ \A g \in Groups : pc[g] = "barrier"
  /\ num_kv_chunks(GCtx(<<0, 0>>)) >= 2
  /\ num_heads(GCtx(<<0, 0>>)) >= 2
  /\ Cardinality(wlog) = num_heads(GCtx(<<0, 0>>)) * num_kv_chunks(GCtx(<<0, 0>>)) * (HeadDim + 2)

\* The elements of tmp the chunk-zero group g loads in its cross-group merge.
LoadSet(g) ==
  LET c == GCtx(g) IN
    UNION {{e[1] : e \in PartialIdx(c, ReadPair(c, SubHead(c, sub), ch))} :
           ch \in 0 .. (num_kv_chunks(c) - 1), sub \in Subs(layout)}

\* C8: after grid.sync no group has stored its final (m, d) to an element of
\* tmp that a chunk-zero group of other heads still has to load.
C8_FinalStoresMissPendingLoads ==
  \A g \in Groups : (g[1] = 0 /\ pc[g] = "barrier") =>
    \A e \in fwlog : e[1] \notin LoadSet(g)

\* C9: the output tensor is a function of q, k, v, seq_len and the chunk size
\* alone: whatever tmp held at the start and however the groups interleave,
\* a finished launch has written what the launch without interleaving writes.
C9_OutputIsDeterministic ==
  AllDone =>
    \A by \in 0 .. (GridY(layout, heads) - 1) : \A ty \in HeadTys(layout) : \A f \in Feat :
      o_out[head_idx(GCtx(<<0, by>>), ty) * HeadDim + f] = SequentialState(Launch, by, ty).o[f]

\* C10: when the launch has finished, the output of every head in
\* [0, num_heads) is written, and the head count the kernel derives from its
\* grid is the caller's num_heads.
C10_EveryHeadWritten ==
  AllDone =>
    /\ num_heads(GCtx(<<0, 0>>)) = heads
    /\ \A i \in DOMAIN o_out : o_out[i] # Unwritten

\* =================================================== one group, tile by tile
\* blk = [c |-> launch context of the group, b |-> its record]; one action per
\* load / compute stage of the kernel between two block.sync().
gridIdle ==
  /\ layout = Idle /\ seq_len = Idle /\ chunk_arg = Idle /\ heads = Idle /\ seed = Idle
  /\ tmp = Idle /\ o_out = Idle /\ pc = Idle /\ regs = Idle
  /\ wlog = Idle /\ rlog = Idle /\ fwlog = Idle
gridSame ==
  UNCHANGED <<layout, seq_len, chunk_arg, heads, seed, tmp, o_out, pc, regs, wlog, rlog, fwlog>>

InitChunk ==
  /\ blk \in {[c |-> c, b |-> BlkInit(c)] : c \in GroupCtxs}
  /\ gridIdle
  /\ sA = Idle /\ sB = Idle /\ sC = Idle /\ host = Idle /\ pipe = Idle /\ red = Idle

BlkDo(phase, nb) ==
  /\ blk.b.phase = phase
  /\ blk' = [blk EXCEPT !.b = nb]
  /\ gridSame
  /\ UNCHANGED <<sA, sB, sC, host, pipe, red>>

BlkPrologue == BlkDo("prologue", Prologue(blk.c, blk.b))
BlkLoadK == BlkDo("load_k", LoadK(blk.c, blk.b))
BlkQK == BlkDo("qk", ComputeQK(blk.c, blk.b, "load_v"))
BlkLoadV == BlkDo("load_v", LoadV(blk.c, blk.b))
BlkUpdate == BlkDo("update", LoopUpdate(blk.c, blk.b))
BlkEpiQK == BlkDo("epi_qk", ComputeQK(blk.c, blk.b, "epi_update"))
BlkEpiUpdate == BlkDo("epi_update", EpiUpdate(blk.c, blk.b))
BlkSyncState == BlkDo("sync_state", SyncPartial(blk.c, blk.b))

NextChunk ==
  \/ BlkPrologue \/ BlkLoadK \/ BlkQK \/ BlkLoadV \/ BlkUpdate
  \/ BlkEpiQK \/ BlkEpiUpdate \/ BlkSyncState

SpecChunk == InitChunk /\ [][NextChunk]_vars

\* What a subgroup has folded lies in its chunk.
FoldsInChunk(c, b) ==
  \A sub \in Subs(c.l) : \A k \in 1 .. Len(b.flog[sub]) :
    /\ chunk_start(c) <= b.flog[sub][k].idx
    /\ b.flog[sub][k].idx < chunk_end(c)
    /\ b.flog[sub][k].vsrc = "v"
    /\ b.flog[sub][k].vpos < chunk_end(c)

\* C4: in update_partial_state a lane whose position is >= chunk_end leaves
\* its running state (o, m, d) unchanged, and nothing folded into any state
\* comes from a position >= chunk_end.
C4_LanesPastChunkEndKeepState ==
  [][/\ blk.b.phase \in {"update", "epi_update"} =>
          \A sub \in Subs(blk.c.l) :
            consumer_kv_idx(blk.c, blk.b, sub) >= chunk_end(blk.c) =>
              blk'.b.s[sub] = blk.b.s[sub]
     /\ FoldsInChunk(blk.c, blk'.b)]_vars
C4_Witness ==
  /\ blk.b.phase = "sync_state"
  /\ blk.c.sl % blk.c.ca # 0
  /\ blk.b.batch >= 2
  /\ \E sub \in Subs(blk.c.l) :
       /\ ~EpiGuard(blk.c, blk.b, sub)
       /\ Len(blk.b.flog[sub]) >= 1

\* ============================================================ merge algebra
\* Three running states, each built by folding elements; sA absorbs sB as
\* sync_state and the cross-group merge do.
Acc(s, n) == [s |-> s, n |-> n]
ElemV(x, k) == [f \in Feat |-> (x + f + k) % 3]

InitMerge ==
  /\ sA = Acc(StateInit, 0) /\ sB = Acc(StateInit, 0) /\ sC = Acc(StateInit, 0)
  /\ gridIdle
  /\ blk = Idle /\ host = Idle /\ pipe = Idle /\ red = Idle

FoldA ==
  /\ sA.n < MaxFold
  /\ \E x \in 0 .. MaxX : sA' = Acc(merge_elem(sA.s, x, ElemV(x, 0)), sA.n + 1)
  /\ gridSame /\ UNCHANGED <<sB, sC, blk, host, pipe, red>>
FoldB ==
  /\ sB.n < MaxFold
  /\ \E x \in 0 .. MaxX : sB' = Acc(merge_elem(sB.s, x, ElemV(x, 1)), sB.n + 1)
  /\ gridSame /\ UNCHANGED <<sA, sC, blk, host, pipe, red>>
FoldC ==
  /\ sC.n < MaxFold
  /\ \E x \in 0 .. MaxX : sC' = Acc(merge_elem(sC.s, x, ElemV(x, 2)), sC.n + 1)
  /\ gridSame /\ UNCHANGED <<sA, sB, blk, host, pipe, red>>
MergeAB ==
  /\ sB.n > 0 /\ sA.n + sB.n <= MaxFold
  /\ sA' = Acc(merge_state(sA.s, sB.s), sA.n + sB.n)
  /\ sB' = Acc(StateInit, 0)
  /\ gridSame /\ UNCHANGED <<sC, blk, host, pipe, red>>

NextMerge == FoldA \/ FoldB \/ FoldC \/ MergeAB

SpecMerge == InitMerge /\ [][NextMerge]_vars

\* C2: the two-state merge is associative and commutative, so merging the
\* states in the order A, B, C or C, B, A gives the same state.
C2_MergeAssociativeCommutative ==
  /\ merge_state(merge_state(sA.s, sB.s), sC.s) = merge_state(sA.s, merge_state(sB.s, sC.s))
  /\ merge_state(sA.s, sB.s) = merge_state(sB.s, sA.s)
  /\ merge_state(merge_state(merge_state(StateInit, sA.s), sB.s), sC.s)
       = merge_state(merge_state(merge_state(StateInit, sC.s), sB.s), sA.s)
C2_Witness ==
  /\ sA.n = MaxFold /\ sB.n > 0 /\ sC.n > 0
  /\ sA.s.m < sB.s.m /\ sB.s.m < sC.s.m
  /\ merge_state(sA.s, sB.s) # sA.s
  /\ merge_state(sA.s, sB.s) # sB.s

\* ================================================== SingleDecodeWithKVCache
\* The host launcher with the geometry of the source.  host is the record of
\* the call: its arguments, its locals and where it stands.
HostLayouts == {"NHD", "HND", "other"}
HostRotaryModes == {"kNone", "kApplyRotary", "other"}
HostHeadDims == {64, 96, 128, 256}
HostSizeofIn == {1, 2, 4}
HostHeads == {1, 2, 3, 8, 32}
HostSeqLens == {0, 1, 8, 100, 1000}
DeviceSMs == {1, 4, 108}
DeviceBlocksPerSM == {0, 1, 4}
QueryError == "cudaErrorInvalidValue"

vec_size(hd, sz) == Max(16 \div sz, hd \div 32)
bdx(hd, sz) == hd \div vec_size(hd, sz)
bdy(l, hd, sz) == IF l = "NHD" THEN 32 \div bdx(hd, sz) ELSE 128 \div bdx(hd, sz)
\* nblks.y as the launcher computes it
HostGridY(h) ==
  IF h.qkv_layout = "NHD"
    THEN h.num_heads \div bdy("NHD", h.head_dim, h.size_in)
    ELSE h.num_heads

\* size_t division.  Dividing by zero is undefined: the build either traps or
\* goes on with some quotient.
UDiv(a, b) ==
  IF b # 0 THEN {[trap |-> FALSE, q |-> a \div b]}
  ELSE {[trap |-> TRUE, q |-> 0], [trap |-> FALSE, q |-> 0], [trap |-> FALSE, q |-> 1]}

HostEntry(l, rm, hd, sz, nh, sl) ==
  [pc |-> "entry", qkv_layout |-> l, rotary_mode |-> rm, head_dim |-> hd,
   size_in |-> sz, num_heads |-> nh, seq_len |-> sl,
   num_sm |-> 0, num_blocks_per_sm |-> 0, queries |-> 0,
   max_num_blks |-> 0, max_num_kv_chunks |-> 0, kv_chunk_size |-> 0,
   nblks |-> <<0, 0>>, nthrs |-> <<0, 0, 0>>,
   launched |-> FALSE, result |-> "none", msg |-> "none", qfail |-> 0]

InitHost ==
  /\ host \in {HostEntry(l, rm, hd, sz, nh, sl) :
                 l \in HostLayouts, rm \in HostRotaryModes, hd \in HostHeadDims,
                 sz \in HostSizeofIn, nh \in HostHeads, sl \in HostSeqLens}
  /\ gridIdle
  /\ blk = Idle /\ sA = Idle /\ sB = Idle /\ sC = Idle /\ pipe = Idle /\ red = Idle

hostFrame == gridSame /\ UNCHANGED <<blk, sA, sB, sC, pipe, red>>

\* The dispatch without the default case of SWITCH_ROTARY_MODE.
HostDispatchAnyRotary ==
  /\ host.pc = "entry"
  /\ host' =
       IF host.qkv_layout \notin {"NHD", "HND"}
         THEN [host EXCEPT !.pc = "aborted", !.msg = "Unsupported qkv_layout"]
       ELSE IF host.head_dim \notin {64, 128, 256}
         THEN [host EXCEPT !.pc = "aborted", !.msg = "Unsupported head_dim"]
       ELSE [host EXCEPT !.pc = "query_sm"]
  /\ hostFrame

\* if / else-if on the layout, SWITCH_HEAD_DIM, SWITCH_ROTARY_MODE
HostDispatch ==
  /\ host.pc = "entry"
  /\ host' =
       IF host.qkv_layout \notin {"NHD", "HND"}
         THEN [host EXCEPT !.pc = "aborted", !.msg = "Unsupported qkv_layout"]
       ELSE IF host.head_dim \notin {64, 128, 256}
         THEN [host EXCEPT !.pc = "aborted", !.msg = "Unsupported head_dim"]
       ELSE IF host.rotary_mode \notin {"kNone", "kApplyRotary"}
         THEN [host EXCEPT !.pc = "aborted", !.msg = "Unsupported rotary_mode"]
       ELSE [host EXCEPT !.pc = "query_sm"]
  /\ hostFrame

\* The multiprocessor-count query with its error dropped.
HostQuerySMUnchecked ==
  /\ host.pc = "query_sm"
  /\ \/ host' = [host EXCEPT !.pc = "query_occ", !.queries = 1, !.qfail = 1]
     \/ \E n \in DeviceSMs :
          host' = [host EXCEPT !.pc = "query_occ", !.num_sm = n, !.queries = 1]
  /\ hostFrame

\* CUDA_CALL(cudaDeviceGetAttribute(&num_sm, ...)); qfail is the number of
\* the query that returned an error, 0 when none did.
HostQuerySM ==
  /\ host.pc = "query_sm"
  /\ \/ host' = [host EXCEPT !.pc = "returned", !.result = QueryError, !.queries = 1,
                              !.qfail = 1]
     \/ \E n \in DeviceSMs :
          host' = [host EXCEPT !.pc = "query_occ", !.num_sm = n, !.queries = 1]
  /\ hostFrame

\* CUDA_CALL(cudaOccupancyMaxActiveBlocksPerMultiprocessor(&num_blocks_per_sm, ...))
HostQueryOcc ==
  /\ host.pc = "query_occ"
  /\ \/ host' = [host EXCEPT !.pc = "returned", !.result = QueryError, !.queries = 2,
                              !.qfail = 2]
     \/ \E n \in DeviceBlocksPerSM :
          host' = [host EXCEPT !.pc = "max_chunks", !.num_blocks_per_sm = n, !.queries = 2]
  /\ hostFrame

\* max_num_blks and max_num_kv_chunks
HostMaxChunks ==
  /\ host.pc = "max_chunks"
  /\ LET mb == host.num_blocks_per_sm * host.num_sm IN
       \E r \in UDiv(mb, HostGridY(host)) :
         host' = IF r.trap
                   THEN [host EXCEPT !.pc = "trapped", !.max_num_blks = mb]
                   ELSE [host EXCEPT !.pc = "chunk_size", !.max_num_blks = mb,
                                     !.max_num_kv_chunks = r.q]
  /\ hostFrame

ChunkFloor(l) == IF l = "NHD" THEN 8 ELSE 32
ChunkCeil(l) == IF l = "NHD" THEN 64 ELSE 128
\* The heuristic term without its ceiling, and without its floor.
ChunkHeuristicNoCeil(h) ==
  LET per == IF h.qkv_layout = "NHD"
               THEN (64 * bdy("NHD", h.head_dim, h.size_in)) \div h.num_heads
               ELSE 128 \div h.num_heads
  IN  Max(ChunkFloor(h.qkv_layout), h.seq_len \div Max(1, per))
ChunkHeuristicNoFloor(h) ==
  LET per == IF h.qkv_layout = "NHD"
               THEN (64 * bdy("NHD", h.head_dim, h.size_in)) \div h.num_heads
               ELSE 128 \div h.num_heads
  IN  Min(ChunkCeil(h.qkv_layout), h.seq_len \div Max(1, per))
\* the second argument of the outer max in kv_chunk_size
ChunkHeuristic(h) ==
  LET per == IF h.qkv_layout = "NHD"
               THEN (64 * bdy("NHD", h.head_dim, h.size_in)) \div h.num_heads
               ELSE 128 \div h.num_heads
  IN  Min(ChunkCeil(h.qkv_layout),
          Max(ChunkFloor(h.qkv_layout), h.seq_len \div Max(1, per)))

HostChunkSize ==
  /\ host.pc = "chunk_size"
  /\ \E r \in UDiv(host.seq_len + host.max_num_kv_chunks - 1, host.max_num_kv_chunks) :
       host' = IF r.trap
                 THEN [host EXCEPT !.pc = "trapped"]
                 ELSE [host EXCEPT !.pc = "grid",
                                   !.kv_chunk_size = Max(r.q, ChunkHeuristic(host))]
  /\ hostFrame

\* nblks, the assert (compiled out under NDEBUG), nthrs
HostGrid ==
  /\ host.pc = "grid"
  /\ LET nb == <<(host.seq_len + host.kv_chunk_size - 1) \div host.kv_chunk_size,
                 HostGridY(host)>>
         nt == IF host.qkv_layout = "NHD"
                 THEN <<bdx(host.head_dim, host.size_in),
                        bdy("NHD", host.head_dim, host.size_in), 4>>
                 ELSE <<bdx(host.head_dim, host.size_in),
                        bdy("HND", host.head_dim, host.size_in), 1>>
     IN  \E ndebug \in BOOLEAN :
           host' = IF ~ndebug /\ ~(nb[1] > 0 /\ nb[2] > 0)
                     THEN [host EXCEPT !.pc = "aborted", !.msg = "assert", !.nblks = nb]
                     ELSE [host EXCEPT !.pc = "launch", !.nblks = nb, !.nthrs = nt]
  /\ hostFrame

\* What cudaLaunchCooperativeKernel can answer for a grid.
LaunchResults(h) ==
  IF h.nblks[1] = 0 \/ h.nblks[2] = 0 THEN {"cudaErrorInvalidConfiguration"}
  ELSE IF h.nblks[1] * h.nblks[2] > h.max_num_blks
    THEN {"cudaErrorCooperativeLaunchTooLarge"}
  ELSE {"cudaSuccess", "cudaErrorLaunchFailure"}

\* CUDA_CALL(cudaLaunchCooperativeKernel(...)); return cudaSuccess
HostLaunch ==
  /\ host.pc = "launch"
  /\ \E e \in LaunchResults(host) :
       host' = [host EXCEPT !.pc = "returned", !.result = e,
                            !.launched = (e = "cudaSuccess")]
  /\ hostFrame

NextHost ==
  \/ HostDispatch \/ HostQuerySM \/ HostQueryOcc \/ HostMaxChunks
  \/ HostChunkSize \/ HostGrid \/ HostLaunch

SpecHost == InitHost /\ [][NextHost]_vars

HostEnded == host.pc \in {"returned", "aborted", "trapped"}
\* The device answered both queries with room for one group and did not fail
\* the launch of a well-formed grid.
DeviceFine ==
  /\ host.queries = 2 /\ host.num_sm * host.num_blocks_per_sm >= 1
  /\ host.result \notin {QueryError, "cudaErrorLaunchFailure"}

\* C5: for a single head with head_dim = 64 and seq_len = 1 the call, under
\* the NHD and under the HND layout, launches exactly one chunk (a grid of one
\* group), the launch that writes the single value vector to the output.
C5_SingleHeadLaunchesOneChunk ==
  ( /\ HostEnded
    /\ host.num_heads = 1 /\ host.head_dim = 64 /\ host.seq_len = 1
    /\ host.qkv_layout \in {"NHD", "HND"}
    /\ host.rotary_mode \in {"kNone", "kApplyRotary"}
    /\ DeviceFine )
  => (host.launched /\ host.nblks = <<1, 1>>)

\* The launcher stands right after choosing kv_chunk_size (and the grid).
ChunkChosen == host.pc \in {"grid", "launch"}
HostCeil == IF host.qkv_layout = "NHD" THEN 64 ELSE 128
HostFloor == IF host.qkv_layout = "NHD" THEN 8 ELSE 32

\* C12: for seq_len >= 1 the grid handed to the cooperative launch has at most
\* max_num_blks groups, chunks times head-groups.
C12_GridFitsDevice ==
  (host.pc = "launch" /\ host.seq_len >= 1) =>
    host.nblks[1] * host.nblks[2] <= host.max_num_blks

\* C13: the chunk size chosen is never larger than 64 (NHD) / 128 (HND).
C13_ChunkSizeAtMostCeiling ==
  ChunkChosen => host.kv_chunk_size <= HostCeil
\* C13 (amended): the chunk size is above the ceiling only when it is the
\* size the device bound demands, ceil(seq_len / max_num_kv_chunks), and it
\* is above the ceiling exactly when that size is.
C13_ChunkSizeAboveCeilingOnlyForDevice ==
  (ChunkChosen /\ host.max_num_kv_chunks >= 1) =>
    LET need == (host.seq_len + host.max_num_kv_chunks - 1) \div host.max_num_kv_chunks
    IN /\ host.kv_chunk_size > HostCeil => host.kv_chunk_size = need
       /\ need > HostCeil => host.kv_chunk_size > HostCeil
C13_Witness ==
  /\ host.pc = "launch" /\ host.max_num_kv_chunks >= 2
  /\ host.kv_chunk_size > HostCeil
  /\ host.nblks[1] >= 2

\* C14: the chunk size chosen is never smaller than 8 (NHD) / 32 (HND), also
\* for a seq_len below that floor.
C14_ChunkSizeAtLeastFloor ==
  ChunkChosen => host.kv_chunk_size >= HostFloor
C14_Witness ==
  /\ host.pc = "launch" /\ host.seq_len = 1 /\ host.max_num_kv_chunks >= 2
  /\ host.kv_chunk_size = HostFloor

\* C15: when there are more head-groups than max_num_blks (max_num_kv_chunks
\* is 0), the call ends by returning an error and has launched no kernel.
C15_NoRoomIsReturnedError ==
  ( /\ HostEnded /\ host.queries = 2 /\ host.qfail = 0 /\ host.seq_len >= 1
    /\ HostGridY(host) > host.num_sm * host.num_blocks_per_sm )
  => ( /\ host.pc = "returned" /\ host.result # "cudaSuccess" /\ ~host.launched )

\* C16: a failed device query is returned to the caller with no kernel
\* launched, and cudaSuccess is returned only after both queries and the
\* cooperative launch succeeded.
C16_QueryErrorsReturned ==
  /\ (HostEnded /\ host.qfail # 0) =>
       (host.pc = "returned" /\ host.result = QueryError /\ ~host.launched)
  /\ (host.pc = "returned" /\ host.result = "cudaSuccess") =>
       (host.qfail = 0 /\ host.queries = 2 /\ host.launched)
  /\ host.launched => (host.pc = "returned" /\ host.result = "cudaSuccess")
C16_Witness ==
  /\ host.pc = "returned" /\ host.qfail = 2 /\ host.num_sm >= 1
  /\ host.result = QueryError

BadConfig ==
  \/ host.head_dim \notin {64, 128, 256}
  \/ host.rotary_mode \notin {"kNone", "kApplyRotary"}
  \/ host.qkv_layout \notin {"NHD", "HND"}

\* C17: an unsupported head_dim, rotary_mode or qkv_layout is found before
\* any device query or launch and is fatal: no query is made, no kernel is
\* launched and the call does not return.
C17_BadConfigIsFatalBeforeQueries ==
  BadConfig =>
    /\ host.pc \in {"entry", "aborted"}
    /\ host.queries = 0 /\ ~host.launched /\ host.result = "none"
C17_Witness ==
  /\ host.pc = "aborted" /\ host.msg = "Unsupported rotary_mode"
  /\ host.qkv_layout = "NHD" /\ host.head_dim = 64

\* The group of chunk bx in the grid the launcher chose.
HostCtx(bx) ==
  [l |-> host.qkv_layout, sl |-> host.seq_len, ca |-> host.kv_chunk_size,
   nh |-> host.num_heads, sd |-> 0, bx |-> bx, by |-> 0,
   gx |-> host.nblks[1], gy |-> host.nblks[2],
   rm |-> host.rotary_mode, rs |-> 0]

\* C20: the ranges [chunk_start, chunk_end) of the chunks of the launched grid
\* are contiguous and disjoint, cover exactly [0, seq_len), and each is
\* non-empty with chunk_start < seq_len.
C20_ChunksTileTheSequence ==
  (host.pc = "launch" /\ host.nblks[1] >= 1) =>
    /\ chunk_start(HostCtx(0)) = 0
    /\ chunk_end(HostCtx(host.nblks[1] - 1)) = host.seq_len
    /\ \A bx \in 0 .. (host.nblks[1] - 1) :
         /\ chunk_start(HostCtx(bx)) < host.seq_len
         /\ chunk_start(HostCtx(bx)) < chunk_end(HostCtx(bx))
         /\ bx > 0 => chunk_start(HostCtx(bx)) = chunk_end(HostCtx(bx - 1))
C20_Witness ==
  /\ host.pc = "launch" /\ host.nblks[1] >= 3
  /\ host.seq_len % host.kv_chunk_size # 0

\* C19: when the kernel has completed, for every head h of the caller tmp[h]
\* is the final merged m of h and tmp[num_heads + h] its final merged d, as
\* the chunk-zero group of h computed them.
C19_FinalMDKeptInTmp ==
  AllDone =>
    \A h \in 0 .. (heads - 1) :
      \E g \in Groups : \E ty \in HeadTys(layout) :
        /\ g[1] = 0 /\ head_idx(GCtx(g), ty) = h
        /\ tmp[h] = regs[g][ty].m
        /\ tmp[heads + h] = regs[g][ty].d

\* The same logical launch with the cache stored in the other layout.
OtherLaunch == [Launch EXCEPT !.l = IF layout = "HND" THEN "NHD" ELSE "HND"]
\* The head-group and the ty of head h in a launch of layout l.
GroupOfHead(l, h) == IF l = "HND" THEN <<h, 0>> ELSE <<h \div Bdy, h % Bdy>>

\* C11: given the same logical cache, query, seq_len and chunk size, the
\* kernel of the other layout processes every head this kernel finishes and
\* produces the same final state (and so the same output) for it.
C11_LayoutsAgree ==
  \A g \in Finished : \A ty \in HeadTys(layout) :
    LET h == head_idx(GCtx(g), ty)
        w == GroupOfHead(OtherLaunch.l, h)
    IN /\ w[1] < GridY(OtherLaunch.l, heads)
       /\ regs[g][ty] = SequentialState(OtherLaunch, w[1], w[2])

\* The dot product of the query of the subgroup's head with the key staged
\* for position pos, both as stored in memory.
RawDot(c, sub, pos) ==
  SumUpTo([f \in Feat |->
             QAt(c.sd, SubHead(c, sub), f)
               * KMem(c.l, c.sl, c.nh, c.sd, FetchAddr(c, sub, pos) + f)], HeadDim)

\* C18: with rotary mode kNone every step of a group, and so its scores and
\* its output, is the same for every rope parameter, and each score is the
\* dot product of the unrotated query and the unrotated staged key.
C18_NoRotaryIgnoresRope ==
  [][blk.c.rm = "kNone" =>
       /\ \A r \in 0 .. MaxRope : blk'.b = BlkStep([blk.c EXCEPT !.rs = r], blk.b)
       /\ blk.b.phase \in {"qk", "epi_qk"} =>
            \A sub \in Subs(blk.c.l) :
              blk'.b.x[sub].src = "k" =>
                blk'.b.x[sub].val = RawDot(blk.c, sub, blk'.b.x[sub].pos)]_vars
C18_Witness ==
  /\ blk.c.rm = "kNone" /\ blk.c.rs >= 1 /\ blk.c.sd >= 1
  /\ blk.b.phase = "sync_state" /\ blk.b.batch >= 2
  /\ \E sub \in Subs(blk.c.l) :
       /\ blk.b.x[sub].src = "k" /\ blk.b.x[sub].pos >= 1
       /\ blk.b.x[sub].val >= 1
       /\ blk.b.x[sub].val # SumUpTo([f \in Feat |-> CellVal(blk.c,
                                 [src |-> "k", addr |-> FetchAddr(blk.c, sub, blk.b.x[sub].pos),
                                  pos |-> 0], f)], HeadDim)

\* ==================================================== one group, lane by lane
\* pipe = [c |-> launch context of the group, others |-> the number of other
\* groups of the launch that have arrived at grid.sync(), ln |-> lanes].  One
\* lane stands for each subgroup <<ty, tz>>: the bdx lanes of a subgroup run
\* the same instructions under the same guards.  A lane is the record
\*   pc, batch, copy_stage_idx, compute_stage_idx, pp  the kernel's locals,
\*   head, tail, rel   stages committed / waited for / released (cuda::pipeline),
\*   nsync, atbar      block.sync() arrivals, and whether the lane stands at one,
\*   ngrid             grid.sync() arrivals,
\*   slot              its row of each of the four staging slots: the stage
\*                     committed for it last (kind, tile, stage number), whether
\*                     a transfer was issued and from where, whether it was read,
\*   nread, kiss, viss, krd, vrd, x, bars   history: compute steps done, last
\*                     key / value tile issued and read, the key cell the score
\*                     came from, the barriers arrived at.
NoCell ==
  [kind |-> "none", tile |-> 0, stage |-> 0 - 1, fetched |-> FALSE, addr |-> 0, pos |-> 0,
   seen |-> FALSE]

\* size_t copy_stage_idx = 2, compute_stage_idx = 0
compute_stage_idx_init == 0
copy_stage_idx_init == 2

LaneInit ==
  [pc |-> "start", batch |-> 1, copy_stage_idx |-> copy_stage_idx_init,
   compute_stage_idx |-> compute_stage_idx_init, pp |-> FALSE,
   head |-> 0, tail |-> 0, rel |-> 0, nsync |-> 0, atbar |-> FALSE, ngrid |-> 0,
   slot |-> [i \in 0 .. (stages_count - 1) |-> NoCell],
   nread |-> 0, kiss |-> 0 - 1, viss |-> 0 - 1, krd |-> 0 - 1, vrd |-> 0 - 1,
   x |-> NoCell, bars |-> <<>>]

\* The slot index does not advance.
SameStage(i) == i
\* copy_stage_idx = (copy_stage_idx + 1) % stages_count, and the same for
\* compute_stage_idx.
NextStage(i) == (i + 1) % stages_count

\* The tile the consumer works on: consumer_kv_idx = chunk_start + (batch - 1) * bdy + ty.
ConsumerTile(L) == L.batch - 1
\* The tile the load stages of the loop fetch: producer_kv_idx = chunk_start + batch * bdy + ty.
ProducerTile(L) == L.batch

\* producer_acquire; if (guard) memcpy_async(slot s <- tile of kind); producer_commit.
\* A lane whose guard is false commits an empty stage.
IssueStage(c, sub, L, s, kind, tile, guard) ==
  LET pos == chunk_start(c) + tile * TileH(c.l) + PosRow(c.l, sub)
      cell == [kind |-> kind, tile |-> tile, stage |-> L.head, fetched |-> guard,
               addr |-> IF guard THEN FetchAddr(c, sub, pos) ELSE 0,
               pos |-> IF guard THEN pos ELSE 0, seen |-> FALSE]
  IN [L EXCEPT !.slot[s] = cell, !.head = @ + 1,
               !.kiss = IF kind = "k" THEN tile ELSE @,
               !.viss = IF kind = "v" THEN tile ELSE @]

\* consumer_wait: the oldest committed stage has landed.
consumer_wait(L) == [L EXCEPT !.tail = @ + 1]
\* A release that leaves the stage held.
ReleaseNothing(L) == L
\* consumer_release: the oldest waited-for stage is given back.
consumer_release(L) == [L EXCEPT !.rel = @ + 1]
\* Arrival at a block.sync().
Arrive(L, label) ==
  [L EXCEPT !.nsync = @ + 1, !.atbar = TRUE, !.bars = Append(@, label)]

\* compute_qk / update_partial_state load the lane's row of slot compute_stage_idx.
ReadSlot(L, kind) ==
  LET cell == L.slot[L.compute_stage_idx] IN
    [L EXCEPT !.nread = @ + 1,
              !.slot[L.compute_stage_idx].seen = TRUE,
              !.krd = IF kind = "k" THEN cell.tile ELSE @,
              !.vrd = IF kind = "v" THEN cell.tile ELSE @,
              !.x = IF kind = "k" THEN cell ELSE @]

\* The step of a lane at L.pc, up to and including its next barrier arrival.
LaneStep(c, sub, L) ==
  LET P == [L EXCEPT !.atbar = FALSE] IN
  CASE L.pc = "start" ->
         \* q_vec is loaded; block.sync()
         [Arrive(P, "q") EXCEPT !.pc = "prologue"]
    [] L.pc = "prologue" ->
         LET g == PosRow(c.l, sub) < kv_chunk_size(c)
             a == IssueStage(c, sub, P, 0, "k", 0, g)
             b == IssueStage(c, sub, a, 1, "v", 0, g)
         IN [b EXCEPT !.pp = g, !.batch = 1, !.pc = LoopTest(c, 1)]
    [] L.pc = "load_k" ->
         LET g == chunk_start(c) + ProducerTile(P) * TileH(c.l) + PosRow(c.l, sub) < chunk_end(c)
             a == IssueStage(c, sub, P, P.copy_stage_idx, "k", ProducerTile(P), g)
         IN [a EXCEPT !.pp = g, !.copy_stage_idx = NextStage(@), !.pc = "qk"]
    [] L.pc = "qk" ->
         [Arrive(consumer_wait(P), "qk") EXCEPT !.pc = "qk_rd"]
    [] L.pc = "qk_rd" ->
         [Arrive(ReadSlot(P, "k"), "qk_rd") EXCEPT !.pc = "load_v"]
    [] L.pc = "load_v" ->
         LET r == [consumer_release(P) EXCEPT !.compute_stage_idx = NextStage(@)]
             a == IssueStage(c, sub, r, r.copy_stage_idx, "v", ProducerTile(r), r.pp)
         IN [a EXCEPT !.copy_stage_idx = NextStage(@), !.pc = "update"]
    [] L.pc = "update" ->
         [Arrive(consumer_wait(P), "update") EXCEPT !.pc = "update_rd"]
    [] L.pc = "update_rd" ->
         [Arrive(ReadSlot(P, "v"), "update_rd") EXCEPT !.pc = "next"]
    [] L.pc = "next" ->
         [consumer_release(P) EXCEPT !.compute_stage_idx = NextStage(@),
                                     !.batch = @ + 1, !.pc = LoopTest(c, P.batch + 1)]
    [] L.pc = "epi_qk" ->
         [Arrive(consumer_wait(P), "epi_qk") EXCEPT !.pc = "epi_qk_rd"]
    [] L.pc = "epi_qk_rd" ->
         [Arrive(ReadSlot(P, "k"), "epi_qk_rd") EXCEPT !.pc = "epi_update"]
    [] L.pc = "epi_update" ->
         LET r == [consumer_release(P) EXCEPT !.compute_stage_idx = NextStage(@)]
         IN [Arrive(consumer_wait(r), "epi_update") EXCEPT !.pc = "epi_update_rd"]
    [] L.pc = "epi_update_rd" ->
         [Arrive(ReadSlot(P, "v"), "epi_update_rd") EXCEPT !.pc = "epi_end"]
    [] L.pc = "epi_end" ->
         [consumer_release(P) EXCEPT !.compute_stage_idx = NextStage(@), !.pc = "sync_state"]
    [] L.pc = "sync_state" ->
         \* s.o.store(smem ...), smem_md; block.sync()
         [Arrive(P, "sync_state") EXCEPT !.pc = "sync_rd"]
    [] L.pc = "sync_rd" ->
         [P EXCEPT !.pc = "tmp_store"]
    [] L.pc = "tmp_store" ->
         \* the stores of s_partial to tmp; grid.sync()
         [P EXCEPT !.ngrid = @ + 1, !.pc = "grid"]
    [] L.pc = "grid" ->
         [P EXCEPT !.pc = IF c.bx = 0 THEN "g_merge" ELSE "done"]
    [] L.pc = "g_merge" ->
         [Arrive(P, "g_merge") EXCEPT !.pc = "sync2"]
    [] L.pc = "sync2" ->
         [Arrive(P, "sync2") EXCEPT !.pc = "sync2_rd"]
    [] L.pc = "sync2_rd" ->
         [P EXCEPT !.pc = "final"]
    [] L.pc = "final" ->
         [P EXCEPT !.pc = "done"]
    [] OTHER -> L

\* A barrier every lane walks through without waiting.
BlockSyncAbsent(p, L) == TRUE
\* block.sync(): a lane that has arrived goes on when every lane of the group
\* has arrived as often as it has.
BlockSync(p, L) == L.atbar => \A o \in Subs(p.c.l) : p.ln[o].nsync >= L.nsync

\* The groups the device-wide barrier waits for besides this one, with one
\* more group in the launch than are resident.
OtherGroupsPlusOne(c) == c.gx * c.gy
\* The groups of the launch besides this one.
OtherGroups(c) == c.gx * c.gy - 1
\* grid.sync(): every lane of every group of the launch has arrived.
GridSyncOpen(p, L) ==
  L.pc = "grid" =>
    /\ \A o \in Subs(p.c.l) : p.ln[o].ngrid >= L.ngrid
    /\ p.others = OtherGroups(p.c)

WaitLabels == {"qk", "update", "epi_qk", "epi_update"}
\* A lane can take its step: barriers open, a committed stage to wait for,
\* and a free stage to acquire.
CanStep(p, L) ==
  /\ L.pc # "done"
  /\ BlockSync(p, L)
  /\ GridSyncOpen(p, L)
  /\ L.pc \in WaitLabels => L.head > L.tail
  /\ L.pc \in {"prologue", "load_k", "load_v"} => L.head - L.rel < stages_count

PipeCtxs == {c \in GroupCtxs : c.sd = 0 /\ c.rm = "kNone" /\ c.rs = 0}

InitPipe ==
  /\ pipe \in {[c |-> c, others |-> 0, ln |-> [sub \in Subs(c.l) |-> LaneInit]] : c \in PipeCtxs}
  /\ gridIdle
  /\ blk = Idle /\ sA = Idle /\ sB = Idle /\ sC = Idle /\ host = Idle /\ red = Idle

pipeFrame == gridSame /\ UNCHANGED <<blk, sA, sB, sC, host, red>>

LaneDo(sub, labels) ==
  /\ pipe.ln[sub].pc \in labels
  /\ CanStep(pipe, pipe.ln[sub])
  /\ pipe' = [pipe EXCEPT !.ln[sub] = LaneStep(pipe.c, sub, pipe.ln[sub])]
  /\ pipeFrame

\* The load stages: prologue, k tile, v tile.
PipeIssue == \E sub \in Subs(pipe.c.l) : LaneDo(sub, {"prologue", "load_k", "load_v"})
\* consumer_wait and the block.sync() before a compute stage.
PipeWait == \E sub \in Subs(pipe.c.l) : LaneDo(sub, WaitLabels)
\* compute_qk / update_partial_state and the block.sync() after it.
PipeCompute ==
  \E sub \in Subs(pipe.c.l) : LaneDo(sub, {"qk_rd", "update_rd", "epi_qk_rd", "epi_update_rd"})
\* Kernel entry, end of a loop iteration, end of the epilogue.
PipeAdvance == \E sub \in Subs(pipe.c.l) : LaneDo(sub, {"start", "next", "epi_end"})
\* sync_state, the stores to tmp, grid.sync() and the cross-group merge.
PipeReduce ==
  \E sub \in Subs(pipe.c.l) :
    LaneDo(sub, {"sync_state", "sync_rd", "tmp_store", "grid", "g_merge", "sync2",
                 "sync2_rd", "final"})
\* Another group of the launch arrives at grid.sync().
PipeOtherGroup ==
  /\ pipe.others < pipe.c.gx * pipe.c.gy - 1
  /\ pipe' = [pipe EXCEPT !.others = @ + 1]
  /\ pipeFrame

NextPipe == PipeIssue \/ PipeWait \/ PipeCompute \/ PipeAdvance \/ PipeReduce \/ PipeOtherGroup

SpecPipe == InitPipe /\ [][NextPipe]_vars
\* Every group is resident and scheduled: some lane or group that can step does.
SpecPipeFair == SpecPipe /\ WF_vars(NextPipe)

PipeLanes == Subs(pipe.c.l)
LanesDone == \A sub \in PipeLanes : pipe.ln[sub].pc = "done"

\* ------------------------------------------------ properties of the pipeline
PipeSlots == 0 .. (stages_count - 1)
\* The position the row of lane sub has in tile t of the chunk.
TilePos(c, sub, t) == chunk_start(c) + t * TileH(c.l) + PosRow(c.l, sub)

\* C21: every asynchronous fetch (prologue and loop, key and value) reads a
\* cache position p with chunk_start <= p < chunk_end <= seq_len and a head
\* below num_heads; a lane whose position is >= chunk_end issues no transfer
\* but still commits its stage.
C21_FetchesReadOwnChunk ==
  \A sub \in PipeLanes : \A s \in PipeSlots :
    LET c == pipe.c
        cell == pipe.ln[sub].slot[s]
    IN cell.kind # "none" =>
         /\ chunk_end(c) <= c.sl
         /\ cell.stage < pipe.ln[sub].head
         /\ cell.fetched <=> TilePos(c, sub, cell.tile) < chunk_end(c)
         /\ cell.fetched =>
              /\ chunk_start(c) <= CachePos(c.l, c.sl, c.nh, cell.addr)
              /\ CachePos(c.l, c.sl, c.nh, cell.addr) < chunk_end(c)
              /\ CacheHead(c.l, c.sl, c.nh, cell.addr) < c.nh

\* C22: in every compute step no lane reads a staged slot until every lane of
\* the group has completed its consumer_wait for the stage in that slot and
\* has arrived at the group barrier the reader has passed.
C22_ReadsAfterEveryLaneWaited ==
  [][\A a \in PipeLanes :
       pipe'.ln[a].nread > pipe.ln[a].nread =>
         LET s == pipe.ln[a].compute_stage_idx
             j == pipe.ln[a].slot[s].stage
         IN /\ pipe.ln[a].atbar
            /\ \A o \in PipeLanes :
                 /\ pipe.ln[o].slot[s].stage = j
                 /\ pipe.ln[o].tail > j
                 /\ pipe.ln[o].nsync >= pipe.ln[a].nsync]_vars
C22_Witness ==
  \E a \in PipeLanes : \E o \in PipeLanes :
    /\ pipe.ln[a].pc = "epi_update" /\ pipe.ln[a].batch >= 2
    /\ pipe.ln[o].pc = "epi_qk_rd"
    /\ pipe.ln[a].nread > pipe.ln[o].nread

\* C23: a fetch is issued into a slot only after every lane of the group has
\* read the tile the slot held before.
C23_FetchOnlyIntoConsumedSlot ==
  [][\A a \in PipeLanes : \A s \in PipeSlots :
       pipe'.ln[a].slot[s].stage > pipe.ln[a].slot[s].stage =>
         \A o \in PipeLanes :
           ( /\ pipe.ln[o].slot[s].kind # "none"
             /\ pipe.ln[o].slot[s].stage < pipe'.ln[a].slot[s].stage )
           => pipe.ln[o].slot[s].seen]_vars
C23_Witness ==
  \E a \in PipeLanes : \E o \in PipeLanes :
    /\ pipe.ln[a].slot[0].kind = "k" /\ pipe.ln[a].slot[0].tile = 2
    /\ pipe.ln[o].slot[0].kind = "k" /\ pipe.ln[o].slot[0].tile = 0
    /\ pipe.ln[o].slot[0].seen

\* C24: tiles are consumed in increasing order and the producer is exactly one
\* tile ahead: when a lane runs the score stage on key tile b, every lane has
\* issued the fetch of key tile b+1 if that tile exists and none has issued
\* tile b+2; the same for value tiles at the accumulation stage.
C24_ProducerOneTileAhead ==
  [][\A a \in PipeLanes :
       pipe'.ln[a].nread > pipe.ln[a].nread =>
         LET b == pipe.ln[a].batch - 1
             ahead == Min(b + 1, NumBatches(pipe.c) - 1)
         IN IF pipe.ln[a].pc \in {"qk_rd", "epi_qk_rd"}
            THEN /\ pipe'.ln[a].krd = b /\ pipe.ln[a].krd = b - 1
                 /\ \A o \in PipeLanes : pipe.ln[o].kiss = ahead
            ELSE /\ pipe'.ln[a].vrd = b /\ pipe.ln[a].vrd = b - 1
                 /\ \A o \in PipeLanes : pipe.ln[o].viss = ahead]_vars
C24_Witness ==
  \E a \in PipeLanes : \E o \in PipeLanes :
    /\ pipe.ln[a].pc = "load_v" /\ pipe.ln[a].krd = 1 /\ pipe.ln[a].kiss = 2
    /\ pipe.ln[o].pc = "qk_rd" /\ pipe.ln[o].krd = 0 /\ pipe.ln[o].kiss = 2

\* C25: at every step compute_stage_idx designates, for the score stage, the
\* slot that holds the key tile of the consumer's tile index, and for the
\* accumulation stage the slot that holds the value tile of the same index:
\* the score a lane folds was computed from the key of the position and head
\* of the value it weighs.  Key tiles occupy slots 0 and 2 only, value tiles
\* slots 1 and 3.
C25_ComputeSlotHoldsConsumerTile ==
  [][\A a \in PipeLanes :
       /\ \A s \in PipeSlots :
            /\ pipe'.ln[a].slot[s].kind = "k" => s \in {0, 2}
            /\ pipe'.ln[a].slot[s].kind = "v" => s \in {1, 3}
       /\ pipe'.ln[a].nread > pipe.ln[a].nread =>
            LET cell == pipe.ln[a].slot[pipe.ln[a].compute_stage_idx]
                b == pipe.ln[a].batch - 1
            IN /\ cell.tile = b
               /\ cell.stage = pipe.ln[a].tail - 1
               /\ IF pipe.ln[a].pc \in {"qk_rd", "epi_qk_rd"}
                  THEN cell.kind = "k"
                  ELSE /\ cell.kind = "v"
                       /\ pipe.ln[a].x.kind = "k" /\ pipe.ln[a].x.tile = b
                       /\ TilePos(pipe.c, a, b) < chunk_end(pipe.c) =>
                            /\ cell.fetched /\ pipe.ln[a].x.fetched
                            /\ cell.pos = TilePos(pipe.c, a, b)
                            /\ pipe.ln[a].x.pos = cell.pos
                            /\ pipe.ln[a].x.addr = cell.addr]_vars
C25_Witness ==
  \E a \in PipeLanes :
    /\ pipe.ln[a].pc = "epi_end" /\ pipe.ln[a].batch = 3
    /\ pipe.ln[a].compute_stage_idx = 1
    /\ pipe.ln[a].slot[1].kind = "v" /\ pipe.ln[a].slot[1].tile = 2
    /\ pipe.ln[a].slot[1].seen /\ pipe.ln[a].slot[1].fetched
    /\ pipe.ln[a].x = [pipe.ln[a].slot[0] EXCEPT !.seen = FALSE]

\* C26: for every chunk length >= 1 the pipeline operations of a lane are
\* balanced: a stage is waited for after it was committed and released after
\* it was waited for, one at a time, consumer_wait is never called with no
\* committed stage outstanding, and when a lane starts sync_state every stage
\* of it is released and no lane of the group has a fetch in flight.
C26_PipelineBalanced ==
  \A a \in PipeLanes :
    LET L == pipe.ln[a] IN
      /\ L.rel <= L.tail /\ L.tail <= L.head
      /\ L.tail - L.rel <= 1
      /\ L.pc \in {"qk", "update", "epi_qk", "epi_update"} => L.head > L.tail
      /\ L.pc \in {"sync_state", "sync_rd", "tmp_store", "grid", "g_merge", "sync2",
                   "sync2_rd", "final", "done"} =>
           /\ L.head = 2 * NumBatches(pipe.c)
           /\ L.tail = L.head /\ L.rel = L.head
           /\ \A o \in PipeLanes : pipe.ln[o].tail = pipe.ln[o].head
C26_Witness ==
  \E a \in PipeLanes : \E o \in PipeLanes :
    /\ pipe.ln[a].pc = "sync_state" /\ pipe.ln[a].head = 6 /\ pipe.ln[a].rel = 6
    /\ pipe.ln[o].pc = "epi_end" /\ pipe.ln[o].rel = 5
    /\ kv_chunk_size(pipe.c) % TileH(pipe.c.l) # 0

IsPrefix(s, t) == Len(s) <= Len(t) /\ \A i \in 1 .. Len(s) : s[i] = t[i]
PastGridSync == {"g_merge", "sync2", "sync2_rd", "final", "done"}

\* C30: with every group of the launch resident, the kernel terminates for
\* every seq_len >= 1 and chunk size: the lanes of a group arrive at the same
\* sequence of group barriers, every lane arrives at the device-wide barrier
\* exactly once and passes it only when all groups have arrived, and every
\* lane reaches the end of the kernel.
C30_KernelTerminates ==
  /\ [](\A a \in PipeLanes : \A o \in PipeLanes :
          \/ IsPrefix(pipe.ln[a].bars, pipe.ln[o].bars)
          \/ IsPrefix(pipe.ln[o].bars, pipe.ln[a].bars))
  /\ [](\A a \in PipeLanes :
          /\ pipe.ln[a].ngrid <= 1
          /\ pipe.ln[a].pc \in PastGridSync =>
               /\ \A o \in PipeLanes : pipe.ln[o].ngrid = 1
               /\ pipe.others = pipe.c.gx * pipe.c.gy - 1
          /\ pipe.ln[a].pc = "done" =>
               Len(pipe.ln[a].bars) = 6 + 4 * (NumBatches(pipe.c) - 1)
                                        + (IF pipe.c.bx = 0 THEN 2 ELSE 0))
  /\ <>LanesDone
C30_Witness ==
  /\ LanesDone
  /\ pipe.c.gx >= 2 /\ pipe.c.bx >= 1
  /\ kv_chunk_size(pipe.c) < pipe.c.ca
  /\ pipe.others >= 1

\* ================================================ the reduction of compute_qk
\* One tile of cg::tiled_partition<bdx>(this_thread_block()) with the block
\* shapes the launcher instantiates.  red = [l, hd, sz: layout, head_dim and
\* sizeof(DTypeIn); t: the tile; part: the partial product of every lane of
\* the tile before the reduction; xs: the x of every lane; off: the next
\* shfl_down offset; phase].
BlockThreads == 128
bdz(l) == IF l = "NHD" THEN 4 ELSE 1
\* threadIdx of the thread of rank r: rank = (tz * bdy + ty) * bdx + tx.
ThreadIdxOf(l, hd, sz, r) ==
  [tx |-> r % bdx(hd, sz),
   ty |-> (r \div bdx(hd, sz)) % bdy(l, hd, sz),
   tz |-> r \div (bdx(hd, sz) * bdy(l, hd, sz))]
\* The ranks of tile t: tiled_partition groups consecutive ranks.
TileRanks(n, t) == (t * n) .. (t * n + n - 1)

\* The partial products of the n lanes of a tile, by pattern.
RedPatterns == {"ones", "ramp", "first", "last", "odd"}
PartialOf(pat, tx, n) ==
  CASE pat = "ones" -> 1
    [] pat = "ramp" -> tx + 1
    [] pat = "first" -> IF tx = 0 THEN 1 ELSE 0
    [] pat = "last" -> IF tx = n - 1 THEN 1 ELSE 0
    [] OTHER -> tx % 2

\* A tile in its first state.
RedEntry(l, hd, sz, t, pat) ==
  [l |-> l, hd |-> hd, sz |-> sz, t |-> t, phase |-> "reduce",
   part |-> [tx \in 0 .. (bdx(hd, sz) - 1) |-> PartialOf(pat, tx, bdx(hd, sz))],
   xs |-> [tx \in 0 .. (bdx(hd, sz) - 1) |-> PartialOf(pat, tx, bdx(hd, sz))],
   off |-> bdx(hd, sz) \div 2]

InitRed ==
  /\ red \in UNION {{RedEntry(l, hd, sz, t, pat) :
                       t \in {0, 1, BlockThreads \div bdx(hd, sz) - 1}, pat \in RedPatterns} :
                    l \in {"NHD", "HND"}, hd \in {64, 128, 256}, sz \in HostSizeofIn}
  /\ gridIdle
  /\ blk = Idle /\ sA = Idle /\ sB = Idle /\ sC = Idle /\ host = Idle /\ pipe = Idle

redFrame == gridSame /\ UNCHANGED <<blk, sA, sB, sC, host, pipe>>

\* x += g.shfl_down(x, offset); offset /= 2
RedShflDown ==
  /\ red.phase = "reduce" /\ red.off > 0
  /\ red' = [red EXCEPT !.xs = ShflDown(red.xs, red.off), !.off = red.off \div 2]
  /\ redFrame
\* x = g.shfl(x, 0)
RedBroadcast ==
  /\ red.phase = "reduce" /\ red.off = 0
  /\ red' = [red EXCEPT !.xs = [tx \in DOMAIN red.xs |-> red.xs[0]], !.phase = "done"]
  /\ redFrame

NextRed == RedShflDown \/ RedBroadcast
SpecRed == InitRed /\ [][NextRed]_vars

\* C27: after compute_qk all bdx lanes of a subgroup hold the same score, the
\* sum of the partial products of all bdx lanes, for bdx in {4, 8, 16, 32};
\* the tile of tiled_partition<bdx> is the bdx lanes tx = 0 .. bdx-1 of one
\* ty (HND) or one (ty, tz) (NHD).
C27_TileHoldsFullDotProduct ==
  LET n == bdx(red.hd, red.sz)
      id(r) == ThreadIdxOf(red.l, red.hd, red.sz, r)
  IN /\ n \in {4, 8, 16, 32}
     /\ n * bdy(red.l, red.hd, red.sz) * bdz(red.l) = BlockThreads
     /\ \A r \in TileRanks(n, red.t) :
          /\ id(r).ty = id(red.t * n).ty /\ id(r).tz = id(red.t * n).tz
          /\ id(r).tx = r - red.t * n
          /\ id(r).ty < bdy(red.l, red.hd, red.sz) /\ id(r).tz < bdz(red.l)
     /\ red.phase = "done" =>
          \A tx \in 0 .. (n - 1) : red.xs[tx] = SumUpTo(red.part, n)
     /\ TreeReduce(red.part, n \div 2)[0] = SumUpTo(red.part, n)
C27_Witness ==
  /\ red.phase = "done" /\ bdx(red.hd, red.sz) = 32 /\ red.t >= 1
  /\ red.part[31] = 1 /\ red.part[0] = 0
  /\ red.xs[31] = 16

\* ============================================= properties of the reductions
\* The subgroups that work on the head of sub: all of the group in HND, those
\* of the same ty in NHD.
Peers(l, sub) == IF l = "HND" THEN Subs(l) ELSE {p \in Subs(l) : p[1] = sub[1]}

RECURSIVE SetSum(_, _)
SetSum(f, S) ==
  IF S = {} THEN 0 ELSE LET x == CHOOSE y \in S : TRUE IN f[x] + SetSum(f, S \ {x})

\* The states st[p], p in S, merged each exactly once, written out: the
\* largest m, and d and o summed after the rescaling to it.
MergedOnce(st, S) ==
  LET M == IF S = {} THEN NegInf ELSE CHOOSE m \in {st[p].m : p \in S} : \A q \in S : st[q].m <= m
  IN [m |-> M,
      d |-> SetSum([p \in S |-> Rescale(st[p].d, st[p].m, M)], S),
      o |-> [f \in Feat |-> SetSum([p \in S |-> Rescale(st[p].o[f], st[p].m, M)], S)]]

\* C28: after sync_state every lane of a group holds the merge of the states
\* of the subgroups that worked on its head, each merged exactly once, and a
\* subgroup that folded no valid position changes nothing: all bdy subgroups
\* in HND, the bdz subgroups of the same ty in NHD; subgroups of one head end
\* with identical states.
C28_SyncStateMergesHeadOnce ==
  [][blk.b.phase = "sync_state" =>
       \A sub \in Subs(blk.c.l) :
         /\ blk'.b.s[sub] = MergedOnce(blk.b.s, Peers(blk.c.l, sub))
         /\ blk'.b.s[sub] =
              MergedOnce(blk.b.s, {p \in Peers(blk.c.l, sub) : Len(blk.b.flog[p]) > 0})
         /\ \A p \in Peers(blk.c.l, sub) : blk'.b.s[p] = blk'.b.s[sub]]_vars
C28_Witness ==
  /\ blk.b.phase = "synced" /\ blk.c.l = "NHD"
  /\ Len(blk.b.flog[<<0, 1>>]) = 0 /\ Len(blk.b.flog[<<0, 0>>]) = 1
  /\ blk.b.s[<<0, 0>>] # blk.b.s[<<1, 0>>]
  /\ blk.b.s[<<0, 1>>] = blk.b.s[<<0, 0>>]
  /\ blk.b.s[<<0, 0>>].d = One

\* The state the group of chunk ch stores to tmp for the head ty of head-group by.
ChunkState(x, ch, by, ty) ==
  RunBlk(Ctx(x, ch, by), BlkInit(Ctx(x, ch, by))).s[SubOf(x.l, ty, 0)]

\* C29: in the cross-group reduction, for every number of chunks, the partial
\* state of every chunk of a head enters the final state of that head exactly
\* once, none skipped and none merged twice, and only groups with chunk index
\* 0 reach the final stores and write the output tensor.
C29_EveryChunkMergedOnce ==
  /\ \A g \in Finished : \A ty \in HeadTys(layout) :
       \E st \in {[ch \in 0 .. (GridX(seq_len, chunk_arg) - 1) |->
                     ChunkState(Launch, ch, g[2], ty)]} :
         regs[g][ty] = MergedOnce(st, DOMAIN st)
  /\ \A g \in Groups : pc[g] = "merged" => g[1] = 0
  /\ \A i \in DOMAIN o_out :
       o_out[i] # Unwritten =>
         \E g \in Groups : \E ty \in HeadTys(layout) :
           /\ g[1] = 0 /\ pc[g] = "done" /\ i \div HeadDim = head_idx(GCtx(g), ty)

====
